---- MODULE Spec2Model ----
(***************************************************************************)
(* Evidence classification of VoltairLabs/web-scraper-sheets.              *)
(*                                                                         *)
(* Two flows classify search results for one organization:                 *)
(*   utility_uses_drones            (src/main.py)                          *)
(*   check_pano_ai_usage            (src/sheets_scraper_pano.py)           *)
(* Strings are TLA+ strings and every Python string operation the code     *)
(* uses (lower, upper, strip, split, replace, in, join) is computed        *)
(* character by character.                                                 *)
(*                                                                         *)
(* Four specifications share the module:                                   *)
(*   Spec       one classification of one organization by one flow         *)
(*   SpecRun    SheetsPanoAIChecker.run with the search on a worker thread *)
(*   SpecMain   main() of src/main.py over the rows of a worksheet         *)
(*   SpecSheet  SheetsPanoAIChecker.run called several times on one        *)
(*              worksheet: find_start_row, get_utilities_from_column_a,    *)
(*              update_sheet                                               *)
(***************************************************************************)
EXTENDS Naturals, Sequences, FiniteSets, TLC

VARIABLES utility_name, response, flow, pc, drone_result, pano_result,
          utilities, run_i, results, run_pc, worker, future, timed_out, outcome,
          sheet, SKIP_EXISTING, MAX_ROWS, MAX_NEW_ROWS, rows, main_i, main_pc,
          updates, processed_count, updated_count, skipped_count, error_count,
          new_rows_processed, calls,
          worksheet, limit, start_row, pano_before, run_count, sheet_pc,
          write_i, attempted, batch

\* the state of one classification
classifyVars == <<utility_name, response, flow, pc, drone_result, pano_result>>

\* the state of SheetsPanoAIChecker.run and of the search worker
runVars == <<utilities, run_i, results, run_pc, worker, future, timed_out, outcome>>

\* the state of main() of src/main.py: the worksheet, the configuration, the
\* locals of the loop and the calls made to SerpAPI and to time.sleep
mainVars ==
    <<sheet, SKIP_EXISTING, MAX_ROWS, MAX_NEW_ROWS, rows, main_i, main_pc,
      updates, processed_count, updated_count, skipped_count, error_count,
      new_rows_processed, calls>>

\* the state of run() of src/sheets_scraper_pano.py on a worksheet: the
\* sheet, the arguments and locals of run() and of update_sheet
sheetVars ==
    <<worksheet, limit, start_row, pano_before, run_count, sheet_pc, write_i,
      attempted, batch>>

vars == <<classifyVars, runVars, mainVars, sheetVars>>

(***************************************************************************)
(* Bounds of the model.                                                    *)
(***************************************************************************)
MaxResults == 2

\* the longest list of utilities run() is given
MaxUtilities == 2

(***************************************************************************)
(* Inputs: organization names and result records.                          *)
(***************************************************************************)
Names ==
    {"SECO Energy", "Lane Electric Cooperative",
     "Lane Electric Cooperative Inc.", "Lane", "Lane Co-op"}

R(title, snippet, link) == [title |-> title, snippet |-> snippet, link |-> link]

TitleFull == "Lane Electric Cooperative Inc uav pano ai"

SnippetContext == "SECO Energy power line"

ResultPool ==
    { R(TitleFull, SnippetContext, "u1"),
      R(TitleFull, SnippetContext, "u2"),
      R("Lane Electric uav", "power line", "u3"),
      R("Lane Electric Cooperative Inc", "SECO Energy pano ai drone", "u3"),
      R(TitleFull, SnippetContext, "https://Indeed.com/jobs/1"),
      R(TitleFull, "SECO Energy power line Panasonic", "u2"),
      R(TitleFull, SnippetContext, "https://distributech.com/a"),
      R("News", "drone power line pano ai", "u2"),
      [title |-> TitleFull, snippet |-> SnippetContext],
      R("Lane Electric", "Cooperative Inc uav power line pano ai", "u4"),
      R("Lane Cooperative uav", "power line", "u3"),
      [link |-> "u3"] }

(***************************************************************************)
(* Python string operations.                                               *)
(***************************************************************************)
UpperChars == "ABCDEFGHIJKLMNOPQRSTUVWXYZ"

LowerChars == "abcdefghijklmnopqrstuvwxyz"

\* str.lower() of one character: the ASCII letters are the cased characters
\* of the inputs
LowerMap ==
    [c \in {SubSeq(UpperChars, k, k) : k \in 1..Len(UpperChars)} |->
        LET k == CHOOSE j \in 1..Len(UpperChars) : SubSeq(UpperChars, j, j) = c
        IN  SubSeq(LowerChars, k, k)]

LowerChar(c) == IF c \in DOMAIN LowerMap THEN LowerMap[c] ELSE c

RECURSIVE LowerString(_)
\* str.lower(), character by character
LowerString(s) ==
    IF Len(s) = 0 THEN ""
    ELSE LowerChar(SubSeq(s, 1, 1)) \o LowerString(SubSeq(s, 2, Len(s)))

\* the strings of the inputs that the flows lowercase: the names, the fields
\* of the records and the title-snippet concatenation
InputStrings ==
    Names
    \cup UNION { {r[k] : k \in DOMAIN r} : r \in ResultPool }
    \cup { (IF "title" \in DOMAIN r THEN r.title ELSE "") \o " "
             \o (IF "snippet" \in DOMAIN r THEN r.snippet ELSE "")
           : r \in ResultPool }
    \cup {""}

\* str.lower() of the input strings, computed once
LowerTable == [s \in InputStrings |-> LowerString(s)]

\* str.lower()
Lower(s) == IF s \in DOMAIN LowerTable THEN LowerTable[s] ELSE LowerString(s)

\* str.isspace() of one character
IsSpace(c) == c \in {" ", "\t", "\n"}

RECURSIVE LStrip(_)
LStrip(s) ==
    IF Len(s) > 0 /\ IsSpace(SubSeq(s, 1, 1)) THEN LStrip(SubSeq(s, 2, Len(s)))
    ELSE s

RECURSIVE RStrip(_)
RStrip(s) ==
    IF Len(s) > 0 /\ IsSpace(SubSeq(s, Len(s), Len(s)))
    THEN RStrip(SubSeq(s, 1, Len(s) - 1))
    ELSE s

\* str.strip()
Strip(s) == RStrip(LStrip(s))

\* sub in s
Contains(s, sub) ==
    /\ Len(sub) <= Len(s)
    /\ \E i \in 0..(Len(s) - Len(sub)) : SubSeq(s, i + 1, i + Len(sub)) = sub

RECURSIVE Replace(_, _, _)
\* s.replace(old, new), old non-empty: leftmost non-overlapping occurrences
Replace(s, old, new) ==
    IF Len(s) < Len(old) THEN s
    ELSE IF SubSeq(s, 1, Len(old)) = old
         THEN new \o Replace(SubSeq(s, Len(old) + 1, Len(s)), old, new)
         ELSE SubSeq(s, 1, 1) \o Replace(SubSeq(s, 2, Len(s)), old, new)

RECURSIVE SplitFrom(_, _)
\* the words of s after the word cur collected so far
SplitFrom(s, cur) ==
    IF Len(s) = 0 THEN (IF Len(cur) = 0 THEN <<>> ELSE <<cur>>)
    ELSE IF IsSpace(SubSeq(s, 1, 1))
         THEN (IF Len(cur) = 0 THEN <<>> ELSE <<cur>>)
              \o SplitFrom(SubSeq(s, 2, Len(s)), "")
         ELSE SplitFrom(SubSeq(s, 2, Len(s)), cur \o SubSeq(s, 1, 1))

\* str.split(): the maximal runs of non-whitespace characters
Split(s) == SplitFrom(s, "")

RECURSIVE Join(_, _)
\* sep.join(seq)
Join(seq, sep) ==
    IF Len(seq) = 0 THEN ""
    ELSE IF Len(seq) = 1 THEN seq[1]
    ELSE seq[1] \o sep \o Join(Tail(seq), sep)

\* any(k in text for k in keywords)
AnyIn(keywords, text) == \E k \in keywords : Contains(text, k)

(***************************************************************************)
(* Python values: Optional[str] is <<>> (None) or <<s>>; a result record   *)
(* is a function whose domain is the set of keys the record has.           *)
(***************************************************************************)
None == <<>>

Some(s) == <<s>>

\* a call that returns the pair (found, urls), and one that ends in an
\* exception reaching its caller
Return(found, urls) == [found |-> found, urls |-> urls, raised |-> FALSE]

Raise == [found |-> FALSE, urls |-> <<>>, raised |-> TRUE]

\* dict.get(key) without the default: None for an absent key, which an
\* f-string renders as the text None
Get_without_default(result, key) ==
    IF key \in DOMAIN result THEN result[key] ELSE "None"

\* dict.get(key, ""), the key being absent from the record or not
Get(result, key) == IF key \in DOMAIN result THEN result[key] ELSE ""

\* [x for x in seq if Test(x)], order kept
RECURSIVE SelectWords(_, _)
SelectWords(seq, excluded) ==
    IF Len(seq) = 0 THEN <<>>
    ELSE (IF Head(seq) \in excluded THEN <<>> ELSE <<Head(seq)>>)
         \o SelectWords(Tail(seq), excluded)

\* set(seq)
SeqSet(seq) == {seq[k] : k \in 1..Len(seq)}

\* seq[:n]
Prefix(seq, n) == SubSeq(seq, 1, IF Len(seq) < n THEN Len(seq) ELSE n)

(***************************************************************************)
(* src/main.py: utility_uses_drones                                        *)
(***************************************************************************)
drone_keywords == {"uas", "uav", "drone", "unmanned aerial vehicle", "unmanned aerial"}

context_keywords ==
    {"power line", "transmission line", "distribution line",
     "utility inspection", "line inspection", "infrastructure inspection",
     "electrical inspection", "grid inspection", "pole inspection",
     "transmission", "distribution", "electrical grid"}

suffixes ==
    {"inc", "inc.", "incorporated", "assn", "assn.", "association",
     "co-op", "cooperative", "co", "corp", "corp.", "corporation"}

banned_domains == {"ziprecruiter", "facebook"}

banned_keywords ==
    {"careers", "career", "recruiting", "recruiter", "recruitment",
     "jobs", "job-board", "jobboard", "hiring", "indeed", "monster",
     "glassdoor", "linkedin.com/jobs", "simplyhired", "dice.com"}

significant_words ==
    {"electric", "power", "energy", "cooperative", "utility",
     "association", "district", "service", "authority"}

\* the list `variations` as the appends build it, before set() is applied
variations(name) ==
    LET name_lower == Strip(Lower(name))
        main_words == SelectWords(Split(name_lower), suffixes)
    IN  <<name_lower>>
        \o (IF Contains(name_lower, "co-op")
            THEN <<Replace(name_lower, "co-op", "cooperative"),
                   Replace(name_lower, "co-op", "co-op")>>
            ELSE <<>>)
        \o (IF Contains(name_lower, "cooperative")
            THEN <<Replace(name_lower, "cooperative", "co-op")>>
            ELSE <<>>)
        \o (IF Contains(name_lower, "assn") \/ Contains(name_lower, "assn.")
            THEN <<Replace(Replace(name_lower, "assn.", "association"),
                           "assn", "association"),
                   Replace(Replace(name_lower, "assn.", "assn"),
                           "association", "assn")>>
            ELSE <<>>)
        \o (IF Contains(name_lower, "association")
            THEN <<Replace(name_lower, "association", "assn")>>
            ELSE <<>>)
        \o (IF Contains(name_lower, "inc.") \/ Contains(name_lower, "inc")
            THEN <<Replace(Replace(name_lower, "inc.", "incorporated"),
                           "inc", "incorporated"),
                   Replace(Replace(name_lower, "inc.", "inc"),
                           "incorporated", "inc")>>
            ELSE <<>>)
        \o (IF Contains(name_lower, "incorporated")
            THEN <<Replace(name_lower, "incorporated", "inc")>>
            ELSE <<>>)
        \o <<Replace(Replace(name_lower, ".", ""), ",", "")>>
        \o (IF Len(main_words) >= 2
            THEN <<Join(Prefix(main_words, 2), " ")>>
            ELSE <<>>)
        \o (IF Len(main_words) >= 3
            THEN <<Join(Prefix(main_words, 3), " ")>>
            ELSE <<>>)

RECURSIVE ListOfSet(_)
\* list(S) for a set S: its elements once each. The order Python gives
\* them is not fixed; no consumer of the list observes it (any(...) and a
\* for loop without break).
ListOfSet(S) ==
    IF S = {} THEN <<>>
    ELSE LET x == CHOOSE y \in S : TRUE
         IN  <<x>> \o ListOfSet(S \ {x})

\* the generator returning `variations` itself, set() forgotten
get_utility_name_variations_with_duplicates(name) == variations(name)

\* get_utility_name_variations: list(set(variations))
get_utility_name_variations(name) == ListOfSet(SeqSet(variations(name)))

\* len(v.split())
WordCount(v) == Len(Split(v))

\* the link test with the banned keywords forgotten
drone_link_banned_domains_only(result) ==
    AnyIn(banned_domains, Lower(Get(result, "link")))

\* the link test of the loop: banned domains, then banned keywords
drone_link_banned(result) ==
    LET link_lower == Lower(Get(result, "link"))
    IN  AnyIn(banned_domains, link_lower) \/ AnyIn(banned_keywords, link_lower)

\* the text taken from the title alone
text_blob_title_only(result) == Lower(Get(result, "title"))

\* text_blob = f"{title} {snippet}".lower()
text_blob(result) == Lower(Get(result, "title") \o " " \o Get(result, "snippet"))

\* a variation of any number of words counted as a full-name match
full_name_match_any_length(utility_variations, text) ==
    \E v \in SeqSet(utility_variations) : Contains(text, v)

\* the 3+-word variations, tried twice by the code with the same list
full_name_match(utility_variations, text) ==
    \E v \in SeqSet(utility_variations) : WordCount(v) >= 3 /\ Contains(text, v)

RECURSIVE two_word_loop(_, _, _)
\* for variation in two_word_variations: the loop runs to its end, in the
\* order of the list, and sets has_utility_name at every variation that has
\* a significant word and is in the text
two_word_loop(two_word_variations, text, has_utility_name) ==
    IF Len(two_word_variations) = 0 THEN has_utility_name
    ELSE LET variation == Head(two_word_variations)
             words     == Split(variation)
         IN  two_word_loop(Tail(two_word_variations), text,
                 IF /\ \E k \in 1..Len(words) : words[k] \in significant_words
                    /\ Contains(text, variation)
                 THEN TRUE
                 ELSE has_utility_name)

\* two_word_variations = [v for v in utility_variations if len(v.split()) == 2]
two_word_variations(utility_variations) ==
    SelectSeq(utility_variations, LAMBDA v : WordCount(v) = 2)

\* the 2-word tier looking at the first 2-word variation of the list only
two_word_match_first_only(utility_variations, text) ==
    two_word_loop(Prefix(two_word_variations(utility_variations), 1), text, FALSE)

\* the 2-word tier: has_utility_name after the loop
two_word_match(utility_variations, text) ==
    two_word_loop(two_word_variations(utility_variations), text, FALSE)

\* name-presence with the 2-word variations tried for a name of any length
name_presence_any_length(name, utility_variations, text) ==
    IF full_name_match(utility_variations, text)
    THEN [has_utility_name |-> TRUE, break |-> FALSE]
    ELSE [has_utility_name |-> two_word_match(utility_variations, text),
          break |-> WordCount(name) <= 3]

\* has_utility_name of one result, and whether the break of line 421 was
\* executed: that break sits in the body of "if utility_word_count <= 3",
\* after the for loop over the 2-word variations and not inside it, so it
\* leaves the loop over organic_results
name_presence(name, utility_variations, text) ==
    IF full_name_match(utility_variations, text)
    THEN [has_utility_name |-> TRUE, break |-> FALSE]
    ELSE IF WordCount(name) <= 3
         THEN [has_utility_name |-> two_word_match(utility_variations, text),
               break |-> TRUE]
         ELSE [has_utility_name |-> FALSE, break |-> FALSE]

\* has_drone
has_drone(text) == AnyIn(drone_keywords, text)

\* has_context computed from the drone keywords
has_context_from_drone_keywords(text) == AnyIn(drone_keywords, text)

\* has_context
has_context(text) == AnyIn(context_keywords, text)

RECURSIVE drone_loop(_, _, _, _, _)
\* for result in organic_results, from result i on: valid_matches at the end
drone_loop(name, utility_variations, organic_results, i, valid_matches) ==
    IF i > Len(organic_results) THEN valid_matches
    ELSE
      LET result == organic_results[i]
          text   == text_blob(result)
          np     == name_presence(name, utility_variations, text)
      IN  IF drone_link_banned(result)
          THEN drone_loop(name, utility_variations, organic_results, i + 1,
                          valid_matches)
          ELSE IF np.break
          THEN valid_matches
          ELSE IF ~np.has_utility_name \/ ~has_drone(text) \/ ~has_context(text)
          THEN drone_loop(name, utility_variations, organic_results, i + 1,
                          valid_matches)
          ELSE drone_loop(name, utility_variations, organic_results, i + 1,
                          Append(valid_matches, Get(result, "link")))

RECURSIVE unique_urls(_, _)
\* the order-preserving deduplication of valid_matches
unique_urls(valid_matches, seen) ==
    IF Len(valid_matches) = 0 THEN <<>>
    ELSE IF Head(valid_matches) \in seen
         THEN unique_urls(Tail(valid_matches), seen)
         ELSE <<Head(valid_matches)>>
              \o unique_urls(Tail(valid_matches), seen \cup {Head(valid_matches)})

\* truthiness of serpapi_response: None and the empty dict are falsy
response_truthy(resp) == resp.type = "dict" /\ resp.keys # {}

\* serpapi_response.get("organic_results", [])
organic_results_of(resp) ==
    IF "organic_results" \in resp.keys THEN resp.organic_results ELSE <<>>

\* the function from "if not organic_results" on: the loop, the
\* deduplication and the "; "-joined string
classify_organic_results(organic_results, name) ==
    IF Len(organic_results) = 0 THEN Return(FALSE, None)
    ELSE
      LET valid_matches ==
              drone_loop(name, get_utility_name_variations(name),
                         organic_results, 1, <<>>)
      IN  IF Len(valid_matches) > 0
          THEN Return(TRUE, Some(Join(unique_urls(valid_matches, {}), "; ")))
          ELSE Return(FALSE, None)

\* the function without its first guard: None.get raises AttributeError
utility_uses_drones_unguarded(resp, name) ==
    IF resp.type = "None" THEN Raise
    ELSE classify_organic_results(organic_results_of(resp), name)

\* utility_uses_drones(serpapi_response, utility_name)
utility_uses_drones(resp, name) ==
    IF ~response_truthy(resp) THEN Return(FALSE, None)
    ELSE classify_organic_results(organic_results_of(resp), name)

(***************************************************************************)
(* src/sheets_scraper_pano.py: SheetsPanoAIChecker.check_pano_ai_usage     *)
(***************************************************************************)
required_pano_keywords ==
    {"pano ai", "panoai", "ai camera", "ai-enabled camera", "ai enabled camera",
     "ai-powered camera", "ai powered camera", "ai-powered cameras",
     "ai powered cameras"}

banned_urls ==
    {"distributech.com", "chartwellinc.com", "lobbylinx.com",
     "re-plus.com/see-whos-attending/"}

banned_words == {"panasonic"}

RECURSIVE Dedup(_, _)
\* the seen/unique_variations loop: first occurrences, order kept
Dedup(seq, seen) ==
    IF Len(seq) = 0 THEN <<>>
    ELSE IF Head(seq) \in seen THEN Dedup(Tail(seq), seen)
         ELSE <<Head(seq)>> \o Dedup(Tail(seq), seen \cup {Head(seq)})

\* _generate_utility_name_variations: case-sensitive rewrites of the name
generate_utility_name_variations(name) ==
    Dedup(<<name>>
          \o (IF Contains(name, "Cooperative")
              THEN <<Replace(name, "Cooperative", "Coop"),
                     Replace(name, "Cooperative", "Co-op")>>
              ELSE <<>>)
          \o (IF Contains(name, "Company")
              THEN <<Replace(name, "Company", "Co"),
                     Replace(name, "Company", "Co.")>>
              ELSE <<>>)
          \o (IF Contains(name, "Corporation")
              THEN <<Replace(name, "Corporation", "Corp"),
                     Replace(name, "Corporation", "Corp.")>>
              ELSE <<>>),
          {})

\* the banned_urls test on link_lower
pano_link_banned(result) == AnyIn(banned_urls, Lower(Get(result, "link")))

\* page_content_lower = f"{title_lower} {snippet_lower}"
page_content_lower(result) ==
    Lower(Get(result, "title")) \o " " \o Lower(Get(result, "snippet"))

\* the banned_words test looking at the title alone
pano_content_banned_title_only(result) ==
    AnyIn(banned_words, Lower(Get(result, "title")))

\* the banned_words test on page_content_lower
pano_content_banned(result) == AnyIn(banned_words, page_content_lower(result))

\* utility_variations_lower = [var.lower() for var in utility_variations]
utility_variations_lower(utility_variations) ==
    [k \in 1..Len(utility_variations) |-> Lower(utility_variations[k])]

\* utility_found: a lowercased variation in the title or in the snippet
utility_found(utility_variations, result) ==
    LET var_lower == utility_variations_lower(utility_variations)
    IN  \E k \in 1..Len(var_lower) :
            \/ Contains(Lower(Get(result, "title")), var_lower[k])
            \/ Contains(Lower(Get(result, "snippet")), var_lower[k])

\* pano_keyword_found looking at the title alone
pano_keyword_found_in_title(result) ==
    AnyIn(required_pano_keywords, Lower(Get(result, "title")))

\* pano_keyword_found
pano_keyword_found(result) == AnyIn(required_pano_keywords, page_content_lower(result))

RECURSIVE pano_loop(_, _, _, _)
\* for result in organic_results, from result i on: source_urls at the end
pano_loop(utility_variations, organic_results, i, source_urls) ==
    IF i > Len(organic_results) THEN source_urls
    ELSE
      LET result == organic_results[i]
          link   == Get(result, "link")
      IN  IF pano_link_banned(result) \/ pano_content_banned(result)
          THEN pano_loop(utility_variations, organic_results, i + 1, source_urls)
          ELSE IF /\ utility_found(utility_variations, result)
                  /\ pano_keyword_found(result)
                  /\ link # ""
                  /\ \A k \in 1..Len(source_urls) : source_urls[k] # link
          THEN pano_loop(utility_variations, organic_results, i + 1,
                         Append(source_urls, link))
          ELSE pano_loop(utility_variations, organic_results, i + 1, source_urls)

\* check_pano_ai_usage classifying what the worker produced after the wait
\* had expired
check_pano_ai_usage_late_result(resp, name) ==
    IF resp.type \in {"error", "None"} THEN Return(FALSE, <<>>)
    ELSE
      LET source_urls ==
              pano_loop(generate_utility_name_variations(name),
                        organic_results_of(resp), 1, <<>>)
      IN  Return(Len(source_urls) > 0, source_urls)

\* check_pano_ai_usage(utility_name), resp being what the search worker
\* produced: no answer within the wait ("timeout"), an exception ("error"),
\* None (results.get raises AttributeError, caught by except Exception), or
\* a dict
check_pano_ai_usage(resp, name) ==
    IF resp.type = "timeout" THEN Return(FALSE, <<>>)
    ELSE IF resp.type \in {"error", "None"} THEN Return(FALSE, <<>>)
    ELSE
      LET source_urls ==
              pano_loop(generate_utility_name_variations(name),
                        organic_results_of(resp), 1, <<>>)
      IN  Return(Len(source_urls) > 0, source_urls)

(***************************************************************************)
(* Search responses built from the inputs.                                 *)
(***************************************************************************)
ResultSeqs == UNION { [1..n -> ResultPool] : n \in 0..MaxResults }

NoneResponse == [type |-> "None", keys |-> {}, organic_results |-> <<>>]

TimeoutResponse == [type |-> "timeout", keys |-> {}, organic_results |-> <<>>]

ErrorResponse == [type |-> "error", keys |-> {}, organic_results |-> <<>>]

DictResponse(keys, seq) == [type |-> "dict", keys |-> keys, organic_results |-> seq]

\* what requests.get(...).json() or GoogleSearch.get_dict() can hand back
SearchResponses ==
    {NoneResponse, DictResponse({}, <<>>), DictResponse({"error"}, <<>>)}
    \cup { DictResponse({"organic_results"}, seq) : seq \in ResultSeqs }

NoResult == Return(FALSE, <<>>)

(***************************************************************************)
(* The state machine: one classification of one organization by one flow.  *)
(***************************************************************************)
\* main() is not in progress
MainIdle ==
    /\ sheet = <<>>
    /\ SKIP_EXISTING = FALSE
    /\ MAX_ROWS = 0
    /\ MAX_NEW_ROWS = 0
    /\ rows = <<>>
    /\ main_i = 1
    /\ main_pc = "off"
    /\ updates = <<>>
    /\ processed_count = 0
    /\ updated_count = 0
    /\ skipped_count = 0
    /\ error_count = 0
    /\ new_rows_processed = 0
    /\ calls = <<>>

\* start_row: int = 2, and start_row = 2 in find_start_row
DefaultStartRow == 2

\* run() is not at work on a worksheet
SheetIdle ==
    /\ worksheet = <<>>
    /\ limit = None
    /\ start_row = DefaultStartRow
    /\ pano_before = <<>>
    /\ run_count = 0
    /\ sheet_pc = "off"
    /\ write_i = 1
    /\ attempted = <<>>
    /\ batch = "none"

\* run() is not in progress
RunIdle ==
    /\ utilities = <<>>
    /\ run_i = 1
    /\ results = <<>>
    /\ run_pc = "off"
    /\ worker = "idle"
    /\ future = NoneResponse
    /\ timed_out = {}
    /\ outcome = NoResult

Init ==
    /\ utility_name \in Names
    /\ flow \in {"drones", "pano"}
    /\ response = NoneResponse
    /\ pc = "search"
    /\ drone_result = NoResult
    /\ pano_result = NoResult
    /\ RunIdle
    /\ MainIdle
    /\ SheetIdle

\* main.py: response = query_serpapi(name)
QuerySerpapi ==
    /\ flow = "drones"
    /\ pc = "search"
    /\ response' \in SearchResponses
    /\ pc' = "classify"
    /\ UNCHANGED <<utility_name, flow, drone_result, pano_result>>
    /\ UNCHANGED runVars
    /\ UNCHANGED mainVars
    /\ UNCHANGED sheetVars

\* main.py: utility_uses_drones(response, name)
UtilityUsesDrones ==
    /\ flow = "drones"
    /\ pc = "classify"
    /\ drone_result' = utility_uses_drones(response, utility_name)
    /\ pc' = "done"
    /\ UNCHANGED <<utility_name, flow, response, pano_result>>
    /\ UNCHANGED runVars
    /\ UNCHANGED mainVars
    /\ UNCHANGED sheetVars

\* sheets_scraper_pano.py: check_pano_ai_usage(utility_name), the search included
CheckPanoAiUsage ==
    /\ flow = "pano"
    /\ pc = "search"
    /\ response' \in SearchResponses \cup {TimeoutResponse, ErrorResponse}
    /\ pano_result' = check_pano_ai_usage(response', utility_name)
    /\ pc' = "done"
    /\ UNCHANGED <<utility_name, flow, drone_result>>
    /\ UNCHANGED runVars
    /\ UNCHANGED mainVars
    /\ UNCHANGED sheetVars

Next ==
    \/ QuerySerpapi
    \/ UtilityUsesDrones
    \/ CheckPanoAiUsage

Spec == Init /\ [][Next]_vars

(***************************************************************************)
(* src/sheets_scraper_pano.py: run, with the search of check_pano_ai_usage *)
(* on its worker thread.                                                   *)
(***************************************************************************)
RunNames == {"SECO Energy", "Lane"}

\* what perform_search can end with on the worker thread
RunResponses ==
    { DictResponse({"organic_results"}, <<>>),
      DictResponse({"organic_results"}, <<R(TitleFull, SnippetContext, "u1")>>),
      ErrorResponse }

\* the (row_number, utility_name) list of get_utilities_from_column_a for
\* a column A holding these names from the start row on
UtilitiesOf(names) ==
    [k \in 1..Len(names) |-> <<DefaultStartRow + k - 1, names[k]>>]

\* a classification is not in progress
ClassifyIdle ==
    /\ utility_name = ""
    /\ flow = "run"
    /\ response = NoneResponse
    /\ pc = "off"
    /\ drone_result = NoResult
    /\ pano_result = NoResult

InitRun ==
    /\ ClassifyIdle
    /\ utilities \in { UtilitiesOf(names) :
                          names \in UNION { [1..n -> RunNames] : n \in 0..MaxUtilities } }
    /\ run_i = 1
    /\ results = <<>>
    /\ run_pc = "loop"
    /\ worker = "idle"
    /\ future = NoneResponse
    /\ timed_out = {}
    /\ outcome = NoResult
    /\ MainIdle
    /\ SheetIdle

\* the response a wait that expired leaves behind: whatever the worker
\* produces later is in the future object, and nobody reads it
TimedOut(resp) == [resp EXCEPT !.type = "timeout"]

\* the tuple run() appends for an outcome of check_pano_ai_usage: the
\* returned pair, or (row_num, False, []) in the except branch
run_record(row_num, call) ==
    IF call.raised THEN <<row_num, FALSE, <<>>>>
    ELSE <<row_num, call.found, call.urls>>

\* for row_num, utility_name in utilities: check_pano_ai_usage is entered,
\* executor.submit(perform_search) starts the worker, future.result waits
Submit ==
    /\ run_pc = "loop"
    /\ run_i <= Len(utilities)
    /\ worker' = "running"
    /\ run_pc' = "waiting"
    /\ UNCHANGED <<utilities, run_i, results, future, timed_out, outcome>>
    /\ UNCHANGED classifyVars
    /\ UNCHANGED mainVars
    /\ UNCHANGED sheetVars

\* perform_search ends on the worker thread, with a dict or an exception
PerformSearch ==
    /\ worker = "running"
    /\ future' \in RunResponses
    /\ worker' = "done"
    /\ UNCHANGED <<utilities, run_i, results, run_pc, timed_out, outcome>>
    /\ UNCHANGED classifyVars
    /\ UNCHANGED mainVars
    /\ UNCHANGED sheetVars

\* future.result(timeout=60) hands over what the worker produced, the with
\* block is left and the results are classified
FutureResult ==
    /\ run_pc = "waiting"
    /\ worker = "done"
    /\ outcome' = check_pano_ai_usage(future, utilities[run_i][2])
    /\ run_pc' = "returned"
    /\ UNCHANGED <<utilities, run_i, results, worker, future, timed_out>>
    /\ UNCHANGED classifyVars
    /\ UNCHANGED mainVars
    /\ UNCHANGED sheetVars

\* the wait expires with the worker still running: future.result raises
\* FutureTimeoutError inside the with block, whose exit
\* (executor.shutdown(wait=True)) waits for the worker
FutureTimeout ==
    /\ run_pc = "waiting"
    /\ worker = "running"
    /\ timed_out' = timed_out \cup {run_i}
    /\ run_pc' = "shutdown"
    /\ UNCHANGED <<utilities, run_i, results, worker, future, outcome>>
    /\ UNCHANGED classifyVars
    /\ UNCHANGED mainVars
    /\ UNCHANGED sheetVars

\* the worker has ended, the with block is left and
\* except FutureTimeoutError returns
TimeoutReturn ==
    /\ run_pc = "shutdown"
    /\ worker = "done"
    /\ outcome' = check_pano_ai_usage(TimedOut(future), utilities[run_i][2])
    /\ run_pc' = "returned"
    /\ UNCHANGED <<utilities, run_i, results, worker, future, timed_out>>
    /\ UNCHANGED classifyVars
    /\ UNCHANGED mainVars
    /\ UNCHANGED sheetVars

\* results.append(...), in the try body or in the except branch, and on to
\* the next utility
RecordResult ==
    /\ run_pc = "returned"
    /\ results' = Append(results, run_record(utilities[run_i][1], outcome))
    /\ run_i' = run_i + 1
    /\ run_pc' = "loop"
    /\ worker' = "idle"
    /\ future' = NoneResponse
    /\ outcome' = NoResult
    /\ UNCHANGED <<utilities, timed_out>>
    /\ UNCHANGED classifyVars
    /\ UNCHANGED mainVars
    /\ UNCHANGED sheetVars

\* the loop is over (or there was no utility): the sheet is updated and
\* run() returns
FinishRun ==
    /\ run_pc = "loop"
    /\ run_i > Len(utilities)
    /\ run_pc' = "finished"
    /\ UNCHANGED <<utilities, run_i, results, worker, future, timed_out, outcome>>
    /\ UNCHANGED classifyVars
    /\ UNCHANGED mainVars
    /\ UNCHANGED sheetVars

NextRun ==
    \/ Submit
    \/ PerformSearch
    \/ FutureResult
    \/ FutureTimeout
    \/ TimeoutReturn
    \/ RecordResult
    \/ FinishRun

SpecRun == InitRun /\ [][NextRun]_vars

(***************************************************************************)
(* src/main.py: fetch_rows, main and update_uses_drones.  The worksheet is *)
(* the sequence of its data rows: sheet[k] is row k + 1 of the sheet, the  *)
(* header row holding Name, Uses_Drones and Drone_Source_URL.              *)
(***************************************************************************)
\* the most data rows a worksheet has
MaxSheetRows == 2

UpperMap ==
    [c \in {SubSeq(LowerChars, k, k) : k \in 1..Len(LowerChars)} |->
        LET k == CHOOSE j \in 1..Len(LowerChars) : SubSeq(LowerChars, j, j) = c
        IN  SubSeq(UpperChars, k, k)]

RECURSIVE Upper(_)
\* str.upper()
Upper(s) ==
    IF Len(s) = 0 THEN ""
    ELSE (IF SubSeq(s, 1, 1) \in DOMAIN UpperMap THEN UpperMap[SubSeq(s, 1, 1)]
          ELSE SubSeq(s, 1, 1))
         \o Upper(SubSeq(s, 2, Len(s)))

\* the values a Name cell and a Uses_Drones cell hold
SheetNames == {"Lane Electric Cooperative", ""}

CellValues == {"", "true", "n/a", " "}

SheetRows ==
    { [Name |-> n, Uses_Drones |-> u,
       Drone_Source_URL |-> IF Strip(u) = "" THEN "" ELSE "old"] :
        n \in SheetNames, u \in CellValues }

Sheets == UNION { [1..n -> SheetRows] : n \in 0..MaxSheetRows }

\* what query_serpapi returns: None after a RequestException, or the JSON
MainResponses ==
    { NoneResponse,
      DictResponse({"organic_results"}, <<>>),
      DictResponse({"organic_results"}, <<R(TitleFull, SnippetContext, "u1")>>) }

\* the dictionary fetch_rows builds for row i + 1 of the sheet
row_dict(ws, k) ==
    LET existing_val_str == Strip(ws[k].Uses_Drones)
        has_any_value == existing_val_str # ""
        existing_val_upper == Upper(existing_val_str)
    IN  [row_index |-> k + 1,
         name |-> Strip(ws[k].Name),
         existing_value |->
             IF has_any_value /\ existing_val_upper \in {"TRUE", "FALSE"}
             THEN Some(existing_val_upper = "TRUE") ELSE None,
         has_any_value |-> has_any_value]

RECURSIVE fetch_rows_from(_, _)
fetch_rows_from(ws, k) ==
    IF k > Len(ws) THEN <<>>
    ELSE (IF Strip(ws[k].Name) = "" THEN <<>> ELSE <<row_dict(ws, k)>>)
         \o fetch_rows_from(ws, k + 1)

\* fetch_rows(ws): the rows with a name, in sheet order
fetch_rows(ws) == fetch_rows_from(ws, 1)

\* rows[:MAX_ROWS] if MAX_ROWS > 0
limit_rows(all_rows, max) ==
    IF max > 0 THEN Prefix(all_rows, max) ELSE all_rows

\* SKIP_EXISTING and existing_value is not None: only TRUE and FALSE cells
\* are skipped
skip_row_true_false_only(row_data) ==
    SKIP_EXISTING /\ row_data.existing_value # None

\* SKIP_EXISTING and (existing_value is not None or has_any_value)
skip_row(row_data) ==
    SKIP_EXISTING /\ (row_data.existing_value # None \/ row_data.has_any_value)

\* MAX_NEW_ROWS > 0 and new_rows_processed >= MAX_NEW_ROWS
limit_reached == MAX_NEW_ROWS > 0 /\ new_rows_processed >= MAX_NEW_ROWS

RECURSIVE update_uses_drones(_, _)
\* update_uses_drones(ws, row_updates): both cells of every queued row
update_uses_drones(ws, row_updates) ==
    IF Len(row_updates) = 0 THEN ws
    ELSE
      LET u == Head(row_updates)
          cell_value == IF u.uses_drones THEN "TRUE" ELSE "FALSE"
          url_value == IF u.source_url # None /\ u.source_url # Some("")
                       THEN u.source_url[1] ELSE ""
      IN  update_uses_drones(
              [ws EXCEPT ![u.row_index - 1].Uses_Drones = cell_value,
                         ![u.row_index - 1].Drone_Source_URL = url_value],
              Tail(row_updates))

InitMain ==
    /\ ClassifyIdle
    /\ RunIdle
    /\ sheet \in Sheets
    /\ SKIP_EXISTING \in BOOLEAN
    /\ MAX_ROWS \in {0, 1}
    /\ MAX_NEW_ROWS \in {0, 1}
    /\ rows = <<>>
    /\ main_i = 1
    /\ main_pc = "start"
    /\ updates = <<>>
    /\ processed_count = 0
    /\ updated_count = 0
    /\ skipped_count = 0
    /\ error_count = 0
    /\ new_rows_processed = 0
    /\ calls = <<>>
    /\ SheetIdle

\* rows = fetch_rows(ws), the MAX_ROWS limit, and the return when there is
\* no row
FetchRows ==
    /\ main_pc = "start"
    /\ rows' = limit_rows(fetch_rows(sheet), MAX_ROWS)
    /\ main_pc' = IF Len(fetch_rows(sheet)) = 0 THEN "done" ELSE "loop"
    /\ UNCHANGED <<sheet, SKIP_EXISTING, MAX_ROWS, MAX_NEW_ROWS, main_i, updates,
                   processed_count, updated_count, skipped_count, error_count,
                   new_rows_processed, calls>>
    /\ UNCHANGED <<classifyVars, runVars>>
    /\ UNCHANGED sheetVars

\* the row has a value and SKIP_EXISTING is set: continue
SkipRow ==
    /\ main_pc = "loop"
    /\ main_i <= Len(rows)
    /\ skip_row(rows[main_i])
    /\ skipped_count' = skipped_count + 1
    /\ main_i' = main_i + 1
    /\ UNCHANGED <<sheet, SKIP_EXISTING, MAX_ROWS, MAX_NEW_ROWS, rows, main_pc,
                   updates, processed_count, updated_count, error_count,
                   new_rows_processed, calls>>
    /\ UNCHANGED <<classifyVars, runVars>>
    /\ UNCHANGED sheetVars

\* the MAX_NEW_ROWS limit is reached: break
StopAtLimit ==
    /\ main_pc = "loop"
    /\ main_i <= Len(rows)
    /\ ~skip_row(rows[main_i])
    /\ limit_reached
    /\ main_pc' = "write"
    /\ UNCHANGED <<sheet, SKIP_EXISTING, MAX_ROWS, MAX_NEW_ROWS, rows, main_i,
                   updates, processed_count, updated_count, skipped_count,
                   error_count, new_rows_processed, calls>>
    /\ UNCHANGED <<classifyVars, runVars>>
    /\ UNCHANGED sheetVars

\* the error branch queuing a FALSE for the row it could not query
QueryFailed_queues_update ==
    /\ main_pc = "loop"
    /\ main_i <= Len(rows)
    /\ ~skip_row(rows[main_i])
    /\ ~limit_reached
    /\ calls' = Append(calls, <<"query", rows[main_i].row_index>>)
    /\ updates' = Append(updates, [row_index |-> rows[main_i].row_index,
                                    uses_drones |-> FALSE, source_url |-> None])
    /\ error_count' = error_count + 1
    /\ processed_count' = processed_count + 1
    /\ main_pc' = "sleep"
    /\ UNCHANGED <<sheet, SKIP_EXISTING, MAX_ROWS, MAX_NEW_ROWS, rows, main_i,
                   updated_count, skipped_count, new_rows_processed>>
    /\ UNCHANGED <<classifyVars, runVars>>
    /\ UNCHANGED sheetVars

\* query_serpapi(name) returns None: the error branch, up to its sleep
QueryFailed ==
    /\ main_pc = "loop"
    /\ main_i <= Len(rows)
    /\ ~skip_row(rows[main_i])
    /\ ~limit_reached
    /\ calls' = Append(calls, <<"query", rows[main_i].row_index>>)
    /\ error_count' = error_count + 1
    /\ processed_count' = processed_count + 1
    /\ main_pc' = "sleep"
    /\ UNCHANGED <<sheet, SKIP_EXISTING, MAX_ROWS, MAX_NEW_ROWS, rows, main_i,
                   updates, updated_count, skipped_count, new_rows_processed>>
    /\ UNCHANGED <<classifyVars, runVars>>
    /\ UNCHANGED sheetVars

\* the success path going on to the next row without its sleep
QueryAnswered_without_sleep ==
    /\ main_pc = "loop"
    /\ main_i <= Len(rows)
    /\ ~skip_row(rows[main_i])
    /\ ~limit_reached
    /\ \E resp \in MainResponses \ {NoneResponse} :
         LET call == utility_uses_drones(resp, rows[main_i].name)
         IN  updates' = Append(updates, [row_index |-> rows[main_i].row_index,
                                         uses_drones |-> call.found,
                                         source_url |-> call.urls])
    /\ calls' = Append(calls, <<"query", rows[main_i].row_index>>)
    /\ updated_count' = updated_count + 1
    /\ processed_count' = processed_count + 1
    /\ new_rows_processed' = new_rows_processed + 1
    /\ main_i' = main_i + 1
    /\ UNCHANGED <<sheet, SKIP_EXISTING, MAX_ROWS, MAX_NEW_ROWS, rows, main_pc,
                   skipped_count, error_count>>
    /\ UNCHANGED <<classifyVars, runVars>>
    /\ UNCHANGED sheetVars

\* query_serpapi(name) returns the JSON: the classification is queued, and
\* the sleep follows unless this was the last row
QueryAnswered ==
    /\ main_pc = "loop"
    /\ main_i <= Len(rows)
    /\ ~skip_row(rows[main_i])
    /\ ~limit_reached
    /\ \E resp \in MainResponses \ {NoneResponse} :
         LET call == utility_uses_drones(resp, rows[main_i].name)
         IN  updates' = Append(updates, [row_index |-> rows[main_i].row_index,
                                         uses_drones |-> call.found,
                                         source_url |-> call.urls])
    /\ calls' = Append(calls, <<"query", rows[main_i].row_index>>)
    /\ updated_count' = updated_count + 1
    /\ processed_count' = processed_count + 1
    /\ new_rows_processed' = new_rows_processed + 1
    /\ IF main_i < Len(rows)
       THEN main_pc' = "sleep" /\ main_i' = main_i
       ELSE main_pc' = "loop" /\ main_i' = main_i + 1
    /\ UNCHANGED <<sheet, SKIP_EXISTING, MAX_ROWS, MAX_NEW_ROWS, rows,
                   skipped_count, error_count>>
    /\ UNCHANGED <<classifyVars, runVars>>
    /\ UNCHANGED sheetVars

\* time.sleep(SERPAPI_DELAY), and on to the next row
Sleep ==
    /\ main_pc = "sleep"
    /\ calls' = Append(calls, <<"sleep">>)
    /\ main_i' = main_i + 1
    /\ main_pc' = "loop"
    /\ UNCHANGED <<sheet, SKIP_EXISTING, MAX_ROWS, MAX_NEW_ROWS, rows, updates,
                   processed_count, updated_count, skipped_count, error_count,
                   new_rows_processed>>
    /\ UNCHANGED <<classifyVars, runVars>>
    /\ UNCHANGED sheetVars

\* the for loop has run through the rows
LoopEnd ==
    /\ main_pc = "loop"
    /\ main_i > Len(rows)
    /\ main_pc' = "write"
    /\ UNCHANGED <<sheet, SKIP_EXISTING, MAX_ROWS, MAX_NEW_ROWS, rows, main_i,
                   updates, processed_count, updated_count, skipped_count,
                   error_count, new_rows_processed, calls>>
    /\ UNCHANGED <<classifyVars, runVars>>
    /\ UNCHANGED sheetVars

\* if updates: update_uses_drones(ws, updates), and the summary
WriteUpdates ==
    /\ main_pc = "write"
    /\ sheet' = update_uses_drones(sheet, updates)
    /\ main_pc' = "done"
    /\ UNCHANGED <<SKIP_EXISTING, MAX_ROWS, MAX_NEW_ROWS, rows, main_i, updates,
                   processed_count, updated_count, skipped_count, error_count,
                   new_rows_processed, calls>>
    /\ UNCHANGED <<classifyVars, runVars>>
    /\ UNCHANGED sheetVars

\* ws.batch_update raises: except Exception prints FATAL ERROR and main
\* returns, the sheet as it was
WriteFails ==
    /\ main_pc = "write"
    /\ updates # <<>>
    /\ main_pc' = "failed"
    /\ UNCHANGED <<sheet, SKIP_EXISTING, MAX_ROWS, MAX_NEW_ROWS, rows, main_i,
                   updates, processed_count, updated_count, skipped_count,
                   error_count, new_rows_processed, calls>>
    /\ UNCHANGED <<classifyVars, runVars>>
    /\ UNCHANGED sheetVars

NextMain ==
    \/ FetchRows
    \/ SkipRow
    \/ StopAtLimit
    \/ QueryFailed
    \/ QueryAnswered
    \/ Sleep
    \/ LoopEnd
    \/ WriteUpdates
    \/ WriteFails

SpecMain == InitMain /\ [][NextMain]_vars

(***************************************************************************)
(* src/sheets_scraper_pano.py: find_start_row, get_utilities_from_column_a,*)
(* run and update_sheet on one worksheet across several calls of run().    *)
(* worksheet[k] is row k + 1 of the sheet: column A, the 'Using Pano AI'   *)
(* cell and the 'Pano AI Source' cell; row 1 holds the headers.            *)
(***************************************************************************)
\* the most calls of run() on one worksheet
MaxRuns == 2

\* the values column A and the 'Using Pano AI' column hold before the
\* first run
ColumnANames == {"SECO Energy", ""}

PanoCells == {"", " ", "True"}

WorksheetRows ==
    { [A |-> a, pano |-> p, source |-> ""] : a \in ColumnANames, p \in PanoCells }

Worksheets == UNION { [1..n -> WorksheetRows] : n \in 0..MaxSheetRows }

\* the limit argument of run(): None or a number
Limits == {None, Some(1)}

RECURSIVE DropTrailingEmpty(_)
DropTrailingEmpty(cells) ==
    IF Len(cells) > 0 /\ cells[Len(cells)] = ""
    THEN DropTrailingEmpty(SubSeq(cells, 1, Len(cells) - 1))
    ELSE cells

\* worksheet.col_values(col): the header and the cells of the column down
\* to the last one that is not empty
col_values(ws, col, header) ==
    <<header>> \o DropTrailingEmpty([k \in 1..Len(ws) |-> ws[k][col]])

RECURSIVE first_empty_without_strip(_, _)
\* the loop testing the value as it is
first_empty_without_strip(column_values, i) ==
    IF i > Len(column_values) THEN 0
    ELSE IF column_values[i] = "" THEN i
    ELSE first_empty_without_strip(column_values, i + 1)

RECURSIVE first_empty(_, _)
\* the for loop of find_start_row from index i (row i) on: the row of the
\* first value that strips to nothing, 0 when the loop ends without break
first_empty(column_values, i) ==
    IF i > Len(column_values) THEN 0
    ELSE IF Strip(column_values[i]) = "" THEN i
    ELSE first_empty(column_values, i + 1)

\* find_start_row once col_values has returned
find_start_row(column_values) ==
    LET i == first_empty(column_values, 2)
    IN  IF i # 0 THEN i
        ELSE IF Len(column_values) > 1 THEN Len(column_values) + 1
        ELSE DefaultStartRow

RECURSIVE get_utilities_from(_, _, _, _)
\* the for loop of get_utilities_from_column_a at 0-based index i
get_utilities_from(column_a_values, i, lim, found) ==
    IF i >= Len(column_a_values) THEN found
    ELSE IF lim # None /\ lim[1] # 0 /\ Len(found) >= lim[1] THEN found
    ELSE LET utility == Strip(column_a_values[i + 1])
         IN  get_utilities_from(column_a_values, i + 1, lim,
                 IF utility # "" THEN Append(found, <<i + 1, utility>>) ELSE found)

get_utilities_from_column_a(column_a_values, first_row, lim) ==
    get_utilities_from(column_a_values, first_row - 1, lim, <<>>)

\* str(is_using_pano_ai) and ", ".join(source_urls) if source_urls else ""
pano_text(is_using_pano_ai) == IF is_using_pano_ai THEN "True" ELSE "False"

source_text(source_urls) == Join(source_urls, ", ")

\* one row of results written: both cells, or the first cell only
write_row(ws, result) ==
    [ws EXCEPT ![result[1] - 1].pano = pano_text(result[2]),
               ![result[1] - 1].source = source_text(result[3])]

write_pano_cell(ws, result) ==
    [ws EXCEPT ![result[1] - 1].pano = pano_text(result[2])]

RECURSIVE batch_update(_, _)
\* worksheet.batch_update(batch_updates): every row of results
batch_update(ws, rs) ==
    IF Len(rs) = 0 THEN ws ELSE batch_update(write_row(ws, Head(rs)), Tail(rs))

\* the 'Using Pano AI' column of the worksheet
PanoColumn(ws) == [k \in 1..Len(ws) |-> ws[k].pano]

InitSheet ==
    /\ ClassifyIdle
    /\ MainIdle
    /\ utilities = <<>>
    /\ run_i = 1
    /\ results = <<>>
    /\ run_pc = "off"
    /\ worker = "idle"
    /\ future = NoneResponse
    /\ timed_out = {}
    /\ outcome = NoResult
    /\ worksheet \in Worksheets
    /\ limit = None
    /\ start_row = DefaultStartRow
    /\ pano_before = <<>>
    /\ run_count = 0
    /\ sheet_pc = "idle"
    /\ write_i = 1
    /\ attempted = <<>>
    /\ batch = "none"

\* run(limit=...) is called: the columns are found and find_start_row reads
\* the 'Using Pano AI' column
FindStartRow ==
    /\ sheet_pc \in {"idle", "returned"}
    /\ run_count < MaxRuns
    /\ run_count' = run_count + 1
    /\ limit' \in Limits
    /\ pano_before' = PanoColumn(worksheet)
    /\ start_row' = find_start_row(col_values(worksheet, "pano", "Using Pano AI"))
    /\ sheet_pc' = "started"
    /\ utilities' = <<>>
    /\ results' = <<>>
    /\ run_i' = 1
    /\ write_i' = 1
    /\ attempted' = <<>>
    /\ batch' = "none"
    /\ UNCHANGED <<worksheet, run_pc, worker, future, timed_out, outcome>>
    /\ UNCHANGED <<classifyVars, mainVars>>

\* the same with col_values raising: except Exception sets start_row = 2
FindStartRowFails ==
    /\ sheet_pc \in {"idle", "returned"}
    /\ run_count < MaxRuns
    /\ run_count' = run_count + 1
    /\ limit' \in Limits
    /\ pano_before' = PanoColumn(worksheet)
    /\ start_row' = DefaultStartRow
    /\ sheet_pc' = "started_unread"
    /\ utilities' = <<>>
    /\ results' = <<>>
    /\ run_i' = 1
    /\ write_i' = 1
    /\ attempted' = <<>>
    /\ batch' = "none"
    /\ UNCHANGED <<worksheet, run_pc, worker, future, timed_out, outcome>>
    /\ UNCHANGED <<classifyVars, mainVars>>

\* utilities = get_utilities_from_column_a(start_row, limit=limit), and the
\* return when there is none
GetUtilities ==
    /\ sheet_pc \in {"started", "started_unread"}
    /\ utilities' = get_utilities_from_column_a(
                        col_values(worksheet, "A", "Utility"), start_row, limit)
    /\ sheet_pc' = IF Len(utilities') = 0 THEN "returned" ELSE "checking"
    /\ UNCHANGED <<worksheet, limit, start_row, pano_before, run_count, write_i,
                   attempted, batch>>
    /\ UNCHANGED <<run_i, results, run_pc, worker, future, timed_out, outcome>>
    /\ UNCHANGED <<classifyVars, mainVars>>

\* col_values(1) raises: get_utilities_from_column_a raises ValueError and
\* run() ends with it
GetUtilitiesFails ==
    /\ sheet_pc \in {"started", "started_unread"}
    /\ sheet_pc' = "returned"
    /\ UNCHANGED <<worksheet, limit, start_row, pano_before, run_count, write_i,
                   attempted, batch>>
    /\ UNCHANGED runVars
    /\ UNCHANGED <<classifyVars, mainVars>>

\* one turn of the loop of run(): the utility is checked and its tuple
\* appended
CheckUtility ==
    /\ sheet_pc = "checking"
    /\ run_i <= Len(utilities)
    /\ \E resp \in RunResponses :
         results' = Append(results,
                        run_record(utilities[run_i][1],
                                   check_pano_ai_usage(resp, utilities[run_i][2])))
    /\ run_i' = run_i + 1
    /\ UNCHANGED <<worksheet, limit, start_row, pano_before, run_count, sheet_pc,
                   write_i, attempted, batch>>
    /\ UNCHANGED <<utilities, run_pc, worker, future, timed_out, outcome>>
    /\ UNCHANGED <<classifyVars, mainVars>>

\* update_sheet: the batch update goes through
BatchUpdate ==
    /\ sheet_pc = "checking"
    /\ run_i > Len(utilities)
    /\ worksheet' = batch_update(worksheet, results)
    /\ batch' = "ok"
    /\ sheet_pc' = "returned"
    /\ UNCHANGED <<limit, start_row, pano_before, run_count, write_i, attempted>>
    /\ UNCHANGED runVars
    /\ UNCHANGED <<classifyVars, mainVars>>

\* update_sheet: the batch update raises and the fallback begins
BatchUpdateFails ==
    /\ sheet_pc = "checking"
    /\ run_i > Len(utilities)
    /\ batch' = "failed"
    /\ sheet_pc' = "fallback"
    /\ UNCHANGED <<worksheet, limit, start_row, pano_before, run_count, write_i,
                   attempted>>
    /\ UNCHANGED runVars
    /\ UNCHANGED <<classifyVars, mainVars>>

\* the fallback stopping at the first row whose update raises
FallbackRow_raises ==
    /\ sheet_pc = "fallback"
    /\ write_i <= Len(results)
    /\ attempted' = Append(attempted, results[write_i][1])
    /\ \/ /\ worksheet' = write_row(worksheet, results[write_i])
          /\ write_i' = write_i + 1
          /\ sheet_pc' = sheet_pc
       \/ /\ worksheet' = worksheet
          /\ write_i' = write_i
          /\ sheet_pc' = "raised"
    /\ UNCHANGED <<limit, start_row, pano_before, run_count, batch>>
    /\ UNCHANGED runVars
    /\ UNCHANGED <<classifyVars, mainVars>>

\* one row of the fallback: both update_cell calls go through, the first
\* raises, or the second raises; except Exception goes on with the next row
FallbackRow ==
    /\ sheet_pc = "fallback"
    /\ write_i <= Len(results)
    /\ attempted' = Append(attempted, results[write_i][1])
    /\ \/ worksheet' = write_row(worksheet, results[write_i])
       \/ worksheet' = worksheet
       \/ worksheet' = write_pano_cell(worksheet, results[write_i])
    /\ write_i' = write_i + 1
    /\ UNCHANGED <<limit, start_row, pano_before, run_count, sheet_pc, batch>>
    /\ UNCHANGED runVars
    /\ UNCHANGED <<classifyVars, mainVars>>

\* the fallback loop is over and update_sheet returns
FallbackEnd ==
    /\ sheet_pc = "fallback"
    /\ write_i > Len(results)
    /\ sheet_pc' = "returned"
    /\ UNCHANGED <<worksheet, limit, start_row, pano_before, run_count, write_i,
                   attempted, batch>>
    /\ UNCHANGED runVars
    /\ UNCHANGED <<classifyVars, mainVars>>

NextSheet ==
    \/ FindStartRow
    \/ FindStartRowFails
    \/ GetUtilities
    \/ GetUtilitiesFails
    \/ CheckUtility
    \/ BatchUpdate
    \/ BatchUpdateFails
    \/ FallbackRow
    \/ FallbackEnd

SpecSheet == InitSheet /\ [][NextSheet]_vars

(***************************************************************************)
(* Reading the state for the properties.                                   *)
(***************************************************************************)
DroneDone == flow = "drones" /\ pc = "done"

PanoDone == flow = "pano" /\ pc = "done"

\* the result sequence that was classified
InputResults == organic_results_of(response)

HasResults == response.type = "dict" /\ "organic_results" \in response.keys

RECURSIVE SplitSepFrom(_, _, _)
SplitSepFrom(s, sep, cur) ==
    IF Len(s) < Len(sep) THEN <<cur \o s>>
    ELSE IF SubSeq(s, 1, Len(sep)) = sep
         THEN <<cur>> \o SplitSepFrom(SubSeq(s, Len(sep) + 1, Len(s)), sep, "")
         ELSE SplitSepFrom(SubSeq(s, 2, Len(s)), sep, cur \o SubSeq(s, 1, 1))

\* the URLs a returned value of utility_uses_drones names: the "; "-separated
\* items of its string, none for None
DroneUrls(res) == IF res.urls = None THEN <<>> ELSE SplitSepFrom(res.urls[1], "; ", "")

InSeq(x, seq) == \E k \in 1..Len(seq) : seq[k] = x

\* seq without its element i
RemoveAt(seq, i) == SubSeq(seq, 1, i - 1) \o SubSeq(seq, i + 1, Len(seq))

LinkOf(r) == Get(r, "link")

\* the variation lists of each name, computed once
DroneVariations == [n \in Names |-> get_utility_name_variations(n)]

PanoVariations == [n \in Names |-> generate_utility_name_variations(n)]

TextOf(r) == Lower(Get(r, "title") \o " " \o Get(r, "snippet"))

\* the filter of the drone flow, as the specification states it
LinkRejected(r) ==
    \E b \in banned_domains \cup banned_keywords : Contains(Lower(LinkOf(r)), b)

\* Tier A: a variation of 3 or more words is a substring of the text
TierA(name, r) ==
    \E v \in SeqSet(DroneVariations[name]) :
        WordCount(v) >= 3 /\ Contains(TextOf(r), v)

\* Tier B: the name has at most 3 words and a 2-word variation with a
\* significant word is a substring of the text
TierB(name, r) ==
    /\ WordCount(name) <= 3
    /\ \E v \in SeqSet(DroneVariations[name]) :
          /\ WordCount(v) = 2
          /\ \E w \in significant_words : InSeq(w, Split(v))
          /\ Contains(TextOf(r), v)

SubjectAndContext(r) ==
    /\ \E k \in drone_keywords : Contains(TextOf(r), k)
    /\ \E k \in context_keywords : Contains(TextOf(r), k)

\* a qualifying result of the drone flow
Qualifies(name, r) ==
    /\ ~LinkRejected(r)
    /\ TierA(name, r) \/ TierB(name, r)
    /\ SubjectAndContext(r)

\* every result record of the sequence carries a link
AllLinked == \A i \in 1..Len(InputResults) : LinkOf(InputResults[i]) # ""

\* C1: every qualifying result's link is among the returned URLs, wherever
\* the result sits in the sequence and whatever precedes it (stated for
\* sequences whose records all carry a link).
C1_EveryQualifyingUrlReturned ==
    (DroneDone /\ AllLinked) =>
        \A i \in 1..Len(InputResults) :
            Qualifies(utility_name, InputResults[i])
                => InSeq(LinkOf(InputResults[i]), DroneUrls(drone_result))

\* C2: an admissible result with a variation of 3+ words, a subject keyword
\* and a context keyword is always evidence: the decision is true and its
\* link is returned, whatever the name and the other results (records that
\* carry a link).
C2_TierAAlwaysEvidence ==
    (DroneDone /\ AllLinked) =>
        \A i \in 1..Len(InputResults) :
            (/\ ~LinkRejected(InputResults[i])
             /\ TierA(utility_name, InputResults[i])
             /\ SubjectAndContext(InputResults[i]))
                => /\ drone_result.found
                   /\ InSeq(LinkOf(InputResults[i]), DroneUrls(drone_result))

\* C3: for a name of at most 3 words, an admissible result without a 3+-word
\* variation but with a qualifying 2-word variation, a subject keyword and a
\* context keyword makes the decision true with its link returned (records
\* that carry a link).
C3_TierBAccepted ==
    (DroneDone /\ AllLinked) =>
        \A i \in 1..Len(InputResults) :
            (/\ ~LinkRejected(InputResults[i])
             /\ ~TierA(utility_name, InputResults[i])
             /\ TierB(utility_name, InputResults[i])
             /\ SubjectAndContext(InputResults[i]))
                => /\ drone_result.found
                   /\ InSeq(LinkOf(InputResults[i]), DroneUrls(drone_result))

\* C4: deleting one admissible result never turns the decision from false
\* to true and never adds a URL (records that carry a link).
C4_RemovalMonotone ==
    (DroneDone /\ HasResults /\ AllLinked) =>
        \A i \in 1..Len(InputResults) :
            ~LinkRejected(InputResults[i]) =>
                LET less == utility_uses_drones(
                                DictResponse({"organic_results"},
                                             RemoveAt(InputResults, i)),
                                utility_name)
                IN  /\ less.found => drone_result.found
                    /\ SeqSet(DroneUrls(less)) \subseteq SeqSet(DroneUrls(drone_result))

\* the filter of the AI-camera flow: a banned URL or a banned content word
PanoRejected(r) ==
    \/ \E b \in banned_urls : Contains(Lower(LinkOf(r)), b)
    \/ \E w \in banned_words : Contains(TextOf(r), w)

\* C5: a result the filter rejects has no effect: the output for a sequence
\* with a rejected result at any position is the output for the sequence
\* without it, in both flows.
C5_BannedInsertionNoEffect ==
    /\ (DroneDone /\ HasResults) =>
          \A i \in 1..Len(InputResults) :
              LinkRejected(InputResults[i]) =>
                  drone_result =
                      utility_uses_drones(
                          DictResponse({"organic_results"}, RemoveAt(InputResults, i)),
                          utility_name)
    /\ (PanoDone /\ HasResults) =>
          \A i \in 1..Len(InputResults) :
              PanoRejected(InputResults[i]) =>
                  pano_result =
                      check_pano_ai_usage(
                          DictResponse({"organic_results"}, RemoveAt(InputResults, i)),
                          utility_name)

\* a rejected result stands beside evidence that was returned
W_C5 ==
    /\ DroneDone
    /\ drone_result.found
    /\ \E i \in 1..Len(InputResults) : LinkRejected(InputResults[i])

\* the permutations of 1..n
IndexPermutations(n) == {p \in [1..n -> 1..n] : \A j, k \in 1..n : p[j] = p[k] => j = k}

\* C6: permuting the result sequence leaves the decision and the set of
\* returned URLs unchanged (records that carry a link).
C6_OrderIndependent ==
    (DroneDone /\ HasResults /\ AllLinked) =>
        \A p \in IndexPermutations(Len(InputResults)) :
            LET permuted == utility_uses_drones(
                                DictResponse({"organic_results"},
                                             [k \in 1..Len(InputResults) |->
                                                 InputResults[p[k]]]),
                                utility_name)
            IN  /\ permuted.found = drone_result.found
                /\ SeqSet(DroneUrls(permuted)) = SeqSet(DroneUrls(drone_result))

\* C7: every URL utility_uses_drones returns is the link of an input result
\* that passed the link filter and whose text has an accepted name variation,
\* a subject keyword and a context keyword.
C7_DroneSoundness ==
    DroneDone =>
        \A u \in SeqSet(DroneUrls(drone_result)) :
            \E i \in 1..Len(InputResults) :
                /\ LinkOf(InputResults[i]) = u
                /\ Qualifies(utility_name, InputResults[i])

\* evidence was returned although another result has the name without the
\* keywords
W_C7 ==
    /\ DroneDone
    /\ drone_result.found
    /\ \E i \in 1..Len(InputResults) :
          /\ ~LinkRejected(InputResults[i])
          /\ TierA(utility_name, InputResults[i])
          /\ ~SubjectAndContext(InputResults[i])

\* name-presence of the AI-camera flow: a lowercased variation in the
\* lowercased title or in the lowercased snippet
PanoName(name, r) ==
    \E v \in SeqSet(PanoVariations[name]) :
        \/ Contains(Lower(Get(r, "title")), Lower(v))
        \/ Contains(Lower(Get(r, "snippet")), Lower(v))

PanoSubject(r) == \E k \in required_pano_keywords : Contains(TextOf(r), k)

ContextPresent(r) == \E k \in context_keywords : Contains(TextOf(r), k)

\* C8 as stated: the AI-camera flow returns a URL only for a result with a
\* name variation, a subject keyword and a context keyword.
C8_PanoThreePartConjunction ==
    PanoDone =>
        \A u \in SeqSet(pano_result.urls) :
            \E i \in 1..Len(InputResults) :
                /\ LinkOf(InputResults[i]) = u
                /\ PanoName(utility_name, InputResults[i])
                /\ PanoSubject(InputResults[i])
                /\ ContextPresent(InputResults[i])

\* C8 amended: the AI-camera flow applies a two-part conjunction. A URL is
\* returned exactly for the non-empty links of the results that pass the
\* filter and have a name variation (in the title or in the snippet) and a
\* subject keyword; a context keyword is not required.
C8_PanoTwoPartConjunction ==
    PanoDone =>
        /\ \A u \in SeqSet(pano_result.urls) :
              \E i \in 1..Len(InputResults) :
                  /\ LinkOf(InputResults[i]) = u
                  /\ ~PanoRejected(InputResults[i])
                  /\ PanoName(utility_name, InputResults[i])
                  /\ PanoSubject(InputResults[i])
        /\ \A i \in 1..Len(InputResults) :
              (/\ ~PanoRejected(InputResults[i])
               /\ LinkOf(InputResults[i]) # ""
               /\ PanoName(utility_name, InputResults[i])
               /\ PanoSubject(InputResults[i]))
                  => InSeq(LinkOf(InputResults[i]), pano_result.urls)

\* the only result has the name and a subject keyword, no context keyword,
\* and its link was returned
W_C8 ==
    /\ PanoDone
    /\ Len(InputResults) = 1
    /\ PanoName(utility_name, InputResults[1])
    /\ PanoSubject(InputResults[1])
    /\ ~ContextPresent(InputResults[1])
    /\ pano_result = Return(TRUE, <<LinkOf(InputResults[1])>>)

\* C9: an empty result sequence gives the decision false with no URLs, and
\* None or a response without organic_results gives the same value.
C9_EmptyResultsLaw ==
    /\ (DroneDone /\ Len(InputResults) = 0) => drone_result = Return(FALSE, None)
    /\ (PanoDone /\ response.type \in {"None", "dict"} /\ Len(InputResults) = 0)
          => pano_result = Return(FALSE, <<>>)

\* a failed search (None) was classified
W_C9 == DroneDone /\ response.type = "None"

\* a qualifying result of the AI-camera flow that carries a link
PanoQualifies(name, r) ==
    /\ ~PanoRejected(r)
    /\ LinkOf(r) # ""
    /\ PanoName(name, r)
    /\ PanoSubject(r)

\* the position of the first qualifying result that carries link u
FirstDrone(u) ==
    CHOOSE i \in 1..Len(InputResults) :
        /\ LinkOf(InputResults[i]) = u /\ Qualifies(utility_name, InputResults[i])
        /\ \A j \in 1..(i - 1) :
              ~(LinkOf(InputResults[j]) = u /\ Qualifies(utility_name, InputResults[j]))

FirstPano(u) ==
    CHOOSE i \in 1..Len(InputResults) :
        /\ LinkOf(InputResults[i]) = u /\ PanoQualifies(utility_name, InputResults[i])
        /\ \A j \in 1..(i - 1) :
              ~(LinkOf(InputResults[j]) = u /\ PanoQualifies(utility_name, InputResults[j]))

\* seq has no element twice
NoDuplicates(seq) == \A j, k \in 1..Len(seq) : seq[j] = seq[k] => j = k

\* x occurs in seq exactly once
ExactlyOnce(x, seq) == Cardinality({k \in 1..Len(seq) : seq[k] = x}) = 1

\* C10: the returned URL sequence has no link twice, has a link shared by
\* several qualifying results exactly once, and lists the links in the order
\* of the first qualifying result that carries each (records that carry a
\* link).
C10_DedupFirstSeenOrder ==
    /\ (DroneDone /\ AllLinked) =>
          LET urls == DroneUrls(drone_result)
          IN  /\ NoDuplicates(urls)
              /\ \A i, j \in 1..Len(InputResults) :
                    (/\ i # j
                     /\ LinkOf(InputResults[i]) = LinkOf(InputResults[j])
                     /\ Qualifies(utility_name, InputResults[i])
                     /\ Qualifies(utility_name, InputResults[j]))
                        => ExactlyOnce(LinkOf(InputResults[i]), urls)
              /\ \A j, k \in 1..Len(urls) :
                    j < k => FirstDrone(urls[j]) < FirstDrone(urls[k])
    /\ PanoDone =>
          LET urls == pano_result.urls
          IN  /\ NoDuplicates(urls)
              /\ \A i, j \in 1..Len(InputResults) :
                    (/\ i # j
                     /\ LinkOf(InputResults[i]) = LinkOf(InputResults[j])
                     /\ PanoQualifies(utility_name, InputResults[i])
                     /\ PanoQualifies(utility_name, InputResults[j]))
                        => ExactlyOnce(LinkOf(InputResults[i]), urls)
              /\ \A j, k \in 1..Len(urls) :
                    j < k => FirstPano(urls[j]) < FirstPano(urls[k])

\* C11 as stated: the link of a result the filter rejects never appears in
\* the output, in both flows.
C11_RejectedLinkNeverReturned ==
    /\ DroneDone =>
          \A i \in 1..Len(InputResults) :
              LinkRejected(InputResults[i])
                  => ~InSeq(LinkOf(InputResults[i]), DroneUrls(drone_result))
    /\ PanoDone =>
          \A i \in 1..Len(InputResults) :
              PanoRejected(InputResults[i])
                  => ~InSeq(LinkOf(InputResults[i]), pano_result.urls)

\* the link of the result contains a banned URL, domain or keyword
PanoLinkRejected(r) == \E b \in banned_urls : Contains(Lower(LinkOf(r)), b)

\* C11 amended: a rejected result is never the source of a returned URL. A
\* link with a banned domain, keyword or URL is never returned; the link of a
\* result rejected for a banned content word is returned only when another
\* result, which passes the filter and qualifies, carries the same link.
C11_RejectedResultNeverSource ==
    /\ DroneDone =>
          \A i \in 1..Len(InputResults) :
              LinkRejected(InputResults[i])
                  => ~InSeq(LinkOf(InputResults[i]), DroneUrls(drone_result))
    /\ PanoDone =>
          \A i \in 1..Len(InputResults) :
              /\ PanoLinkRejected(InputResults[i])
                    => ~InSeq(LinkOf(InputResults[i]), pano_result.urls)
              /\ (/\ PanoRejected(InputResults[i])
                  /\ InSeq(LinkOf(InputResults[i]), pano_result.urls))
                    => \E j \in 1..Len(InputResults) :
                          /\ j # i
                          /\ LinkOf(InputResults[j]) = LinkOf(InputResults[i])
                          /\ ~PanoRejected(InputResults[j])
                          /\ PanoName(utility_name, InputResults[j])
                          /\ PanoSubject(InputResults[j])

\* the only result has the name and a subject keyword in its text and a
\* banned content word besides, and nothing was returned
W_C11 ==
    /\ PanoDone
    /\ Len(InputResults) = 1
    /\ ~PanoLinkRejected(InputResults[1])
    /\ PanoRejected(InputResults[1])
    /\ PanoName(utility_name, InputResults[1])
    /\ PanoSubject(InputResults[1])
    /\ pano_result = Return(FALSE, <<>>)

\* the record with its title and snippet joined into the title
Merged(r) ==
    LET joined == Get(r, "title") \o " " \o Get(r, "snippet")
    IN  IF "link" \in DOMAIN r
        THEN R(joined, "", r.link)
        ELSE [title |-> joined, snippet |-> ""]

MergedResponse ==
    DictResponse({"organic_results"},
                 [k \in 1..Len(InputResults) |-> Merged(InputResults[k])])

\* C12 as stated: both flows look for the name in the concatenation of title
\* and snippet, so moving the boundary between title and snippet (here: the
\* whole text in the title) changes no output.
C12_BothFlowsUseConcatenation ==
    /\ (DroneDone /\ HasResults)
          => drone_result = utility_uses_drones(MergedResponse, utility_name)
    /\ (PanoDone /\ HasResults)
          => pano_result = check_pano_ai_usage(MergedResponse, utility_name)

\* C12 amended: the drone flow looks for the name in the concatenation, so
\* its output does not depend on where the title ends and the snippet
\* starts; the AI-camera flow returns a URL only for a result with a
\* variation wholly inside the title or wholly inside the snippet.
C12_ConcatenationInDroneFlowOnly ==
    /\ (DroneDone /\ HasResults)
          => drone_result = utility_uses_drones(MergedResponse, utility_name)
    /\ PanoDone =>
          \A u \in SeqSet(pano_result.urls) :
              \E i \in 1..Len(InputResults) :
                  /\ LinkOf(InputResults[i]) = u
                  /\ \E v \in SeqSet(PanoVariations[utility_name]) :
                        \/ Contains(Lower(Get(InputResults[i], "title")), Lower(v))
                        \/ Contains(Lower(Get(InputResults[i], "snippet")), Lower(v))

\* every 3+-word variation found in the text of r straddles the end of the
\* title and the start of the snippet, and there is one
StraddlesOnly(name, r) ==
    /\ TierA(name, r)
    /\ \A v \in SeqSet(DroneVariations[name]) :
          (WordCount(v) >= 3 /\ Contains(TextOf(r), v))
              => /\ ~Contains(Lower(Get(r, "title")), v)
                 /\ ~Contains(Lower(Get(r, "snippet")), v)

\* the only result has the name across the boundary of title and snippet,
\* and the drone flow returned its link
W_C12 ==
    /\ DroneDone
    /\ Len(InputResults) = 1
    /\ StraddlesOnly(utility_name, InputResults[1])
    /\ drone_result = Return(TRUE, Some(LinkOf(InputResults[1])))

\* the 2-word variations of the name
TwoWordVariations(name) == {v \in SeqSet(DroneVariations[name]) : WordCount(v) = 2}

\* a 2-word variation that passes the significant-word check and is a
\* substring of the text
QualifyingTwoWord(v, r) ==
    /\ \E w \in significant_words : InSeq(w, Split(v))
    /\ Contains(TextOf(r), v)

\* C13: Tier B examines every 2-word variation. When one 2-word variation
\* fails the significant-word check or is not in the text and another one
\* qualifies, name-presence is established for the result, and the early
\* exit touches nothing but the rest of that tier: the result, having the
\* keywords too, is evidence (records that carry a link).
C13_TierBExaminesEveryVariation ==
    (DroneDone /\ AllLinked) =>
        \A i \in 1..Len(InputResults) :
            (/\ ~LinkRejected(InputResults[i])
             /\ ~TierA(utility_name, InputResults[i])
             /\ WordCount(utility_name) <= 3
             /\ \E v \in TwoWordVariations(utility_name) :
                   QualifyingTwoWord(v, InputResults[i])
             /\ \E v \in TwoWordVariations(utility_name) :
                   ~QualifyingTwoWord(v, InputResults[i]))
                => /\ name_presence(utility_name,
                                    DroneVariations[utility_name],
                                    TextOf(InputResults[i])).has_utility_name
                   /\ SubjectAndContext(InputResults[i])
                         => InSeq(LinkOf(InputResults[i]), DroneUrls(drone_result))

\* C14: a 2-word variation establishes name-presence only when no 3+-word
\* variation matched, the name has at most 3 words and the variation has a
\* significant word; for a name of 4 or more words every returned URL comes
\* from a result with a 3+-word variation.
C14_TierBGating ==
    DroneDone =>
        /\ \A i \in 1..Len(InputResults) :
              name_presence(utility_name,
                            DroneVariations[utility_name],
                            TextOf(InputResults[i])).has_utility_name
                  => \/ TierA(utility_name, InputResults[i])
                     \/ /\ WordCount(utility_name) <= 3
                        /\ \E v \in TwoWordVariations(utility_name) :
                              QualifyingTwoWord(v, InputResults[i])
        /\ WordCount(utility_name) >= 4 =>
              \A u \in SeqSet(DroneUrls(drone_result)) :
                  \E i \in 1..Len(InputResults) :
                      /\ LinkOf(InputResults[i]) = u
                      /\ TierA(utility_name, InputResults[i])

\* the name has 4 words; the only result has a qualifying 2-word variation
\* and both keywords but no 3+-word variation, and it is not evidence
W_C14 ==
    /\ DroneDone
    /\ WordCount(utility_name) >= 4
    /\ Len(InputResults) = 1
    /\ ~LinkRejected(InputResults[1])
    /\ ~TierA(utility_name, InputResults[1])
    /\ \E v \in TwoWordVariations(utility_name) :
          QualifyingTwoWord(v, InputResults[1])
    /\ SubjectAndContext(InputResults[1])
    /\ drone_result = Return(FALSE, None)

\* C15 as stated: in both flows the generated variation collection contains
\* the lowercased, trimmed name and contains no string twice.
C15_LowercasedNameNoDuplicates ==
    /\ DroneDone =>
          /\ InSeq(Strip(Lower(utility_name)),
                   get_utility_name_variations(utility_name))
          /\ NoDuplicates(get_utility_name_variations(utility_name))
    /\ PanoDone =>
          /\ InSeq(Strip(Lower(utility_name)),
                   generate_utility_name_variations(utility_name))
          /\ NoDuplicates(generate_utility_name_variations(utility_name))

\* C15 amended: the list of the drone flow contains the lowercased, trimmed
\* name and no string twice. The list of the AI-camera flow contains the
\* name as it was given and no string twice; the lowercased list that flow
\* matches with contains the lowercased name and no string twice.
C15_VariationListInvariants ==
    /\ DroneDone =>
          /\ InSeq(Strip(Lower(utility_name)),
                   get_utility_name_variations(utility_name))
          /\ NoDuplicates(get_utility_name_variations(utility_name))
    /\ PanoDone =>
          LET generated == generate_utility_name_variations(utility_name)
          IN  /\ InSeq(utility_name, generated)
              /\ NoDuplicates(generated)
              /\ InSeq(Lower(utility_name), utility_variations_lower(generated))
              /\ NoDuplicates(utility_variations_lower(generated))

\* the drone flow ran for a name with capital letters whose appended
\* variations repeat a string, and rewrites were generated
W_C15 ==
    /\ DroneDone
    /\ utility_name # Lower(utility_name)
    /\ ~NoDuplicates(variations(utility_name))
    /\ Len(get_utility_name_variations(utility_name)) >= 3

\* the abbreviation table of the specification: the expanded form, the
\* abbreviated form, and the forms a word of the name can have
AbbreviationTable ==
    { [expanded |-> "cooperative", abbreviated |-> "co-op",
       forms |-> {"cooperative", "co-op"}],
      [expanded |-> "association", abbreviated |-> "assn",
       forms |-> {"association", "assn", "assn."}],
      [expanded |-> "incorporated", abbreviated |-> "inc",
       forms |-> {"incorporated", "inc", "inc."}],
      [expanded |-> "company", abbreviated |-> "co",
       forms |-> {"company", "co", "co."}],
      [expanded |-> "corporation", abbreviated |-> "corp",
       forms |-> {"corporation", "corp", "corp."}] }

\* name_lower with every word that is a form of the pair replaced by target,
\* and nothing else changed
Rewritten(name_lower, forms, target) ==
    LET words == Split(name_lower)
    IN  Join([k \in 1..Len(words) |->
                 IF words[k] \in forms THEN target ELSE words[k]], " ")

\* C16: for each pair of the abbreviation table with a form in the
\* lowercased name, the variations of the drone flow contain the name with
\* that form rewritten to the expanded form and the name with that form
\* rewritten to the abbreviated form ('x inc.' yields 'x incorporated').
C16_AbbreviationRewrites ==
    DroneDone =>
        LET name_lower == Strip(Lower(utility_name))
        IN  \A pair \in AbbreviationTable :
                (\E w \in SeqSet(Split(name_lower)) : w \in pair.forms)
                    => /\ InSeq(Rewritten(name_lower, pair.forms, pair.expanded),
                                get_utility_name_variations(utility_name))
                       /\ InSeq(Rewritten(name_lower, pair.forms, pair.abbreviated),
                                get_utility_name_variations(utility_name))

RECURSIVE Orderings(_)
\* the lists that hold the elements of S once each
Orderings(S) ==
    IF S = {} THEN {<<>>}
    ELSE UNION { { <<x>> \o rest : rest \in Orderings(S \ {x}) } : x \in S }

\* the list with its 2-word variations moved to the end in the given order
Reordered(list, two_word_order) ==
    SelectSeq(list, LAMBDA v : WordCount(v) # 2) \o two_word_order

\* the list back to front
Reversed(list) == [k \in 1..Len(list) |-> list[Len(list) + 1 - k]]

\* C17: the classification does not depend on the order in which the
\* deduplicated variation set is iterated: with the 2-word variations (the
\* ones a loop visits one by one) in any order, and with the whole list back
\* to front, name-presence of every result (the one thing computed from the
\* variations) is what it is for the ordering the call used.
C17_VariationOrderIrrelevant ==
    DroneDone =>
        LET used == DroneVariations[utility_name]
        IN  \A order \in { Reordered(used, tw) :
                               tw \in Orderings(TwoWordVariations(utility_name)) }
                          \cup {Reversed(used)} :
                \A i \in 1..Len(InputResults) :
                    name_presence(utility_name, order, TextOf(InputResults[i]))
                        = name_presence(utility_name, used, TextOf(InputResults[i]))

\* the name has two 2-word variations, of which the text of the only result
\* holds one and lacks the other
W_C17 ==
    /\ DroneDone
    /\ Len(InputResults) = 1
    /\ ~TierA(utility_name, InputResults[1])
    /\ WordCount(utility_name) <= 3
    /\ \E v \in TwoWordVariations(utility_name) :
          QualifyingTwoWord(v, InputResults[1])
    /\ \E v \in TwoWordVariations(utility_name) :
          ~QualifyingTwoWord(v, InputResults[1])

\* the record with each absent field present and empty
Filled(r) ==
    [key \in {"title", "snippet", "link"} |->
        IF key \in DOMAIN r THEN r[key] ELSE ""]

FilledResponse ==
    DictResponse({"organic_results"},
                 [k \in 1..Len(InputResults) |-> Filled(InputResults[k])])

\* C18: classification never fails. Whatever the result sequence, records
\* without title, snippet or link included, the call returns a decision and
\* URLs, never an error, and what it returns is what it returns for the same
\* records with the absent fields present and empty.
C18_ClassificationNeverFails ==
    /\ DroneDone =>
          /\ ~drone_result.raised
          /\ drone_result.found \in BOOLEAN
          /\ HasResults =>
                drone_result = utility_uses_drones(FilledResponse, utility_name)
    /\ PanoDone =>
          /\ ~pano_result.raised
          /\ pano_result.found \in BOOLEAN
          /\ HasResults =>
                pano_result = check_pano_ai_usage(FilledResponse, utility_name)

\* a sequence with a record without link and a record without title and
\* snippet was classified
W_C18 ==
    /\ DroneDone
    /\ \E i, j \in 1..Len(InputResults) :
          /\ "link" \notin DOMAIN InputResults[i]
          /\ "title" \notin DOMAIN InputResults[j]
          /\ "snippet" \notin DOMAIN InputResults[j]
    /\ ~drone_result.raised

\* C19: in every returned value the decision is true exactly when the
\* returned URLs are not empty: a URL string that is not empty in the drone
\* flow, a URL list that is not empty in the AI-camera flow.
C19_DecisionConsistency ==
    /\ DroneDone =>
          (drone_result.found
              <=> (drone_result.urls # None /\ drone_result.urls[1] # ""))
    /\ PanoDone =>
          (pano_result.found <=> Len(pano_result.urls) > 0)

\* C20: a search whose wait expired is a negative result. The call returns
\* (False, []) without an exception, whatever the worker produces later;
\* run() records (row, False, []) for that utility; and after each record
\* run() stands at the next utility.
C20_TimeoutIsNegativeResult ==
    /\ (run_pc = "returned" /\ run_i \in timed_out)
          => outcome = Return(FALSE, <<>>)
    /\ \A k \in timed_out :
          k <= Len(results) => results[k] = <<utilities[k][1], FALSE, <<>>>>
    /\ run_pc \in {"loop", "finished"} => Len(results) = run_i - 1

\* the wait expired for a utility that is not the last, the worker then
\* produced a response with evidence, and the call returned (False, [])
W_C20 ==
    /\ run_pc = "returned"
    /\ run_i \in timed_out
    /\ run_i < Len(utilities)
    /\ check_pano_ai_usage(future, utilities[run_i][2]).found
    /\ outcome = Return(FALSE, <<>>)

(***************************************************************************)
(* C21  The bounded wait bounds the call: once the wait on the search      *)
(* future has expired, check_pano_ai_usage can return to its caller        *)
(* whatever the worker does; the caller is never held back by a worker     *)
(* that is still running.                                                  *)
(***************************************************************************)
C21_TimeoutReturnsWithoutWaiting ==
    (run_pc = "shutdown") => ENABLED TimeoutReturn

(***************************************************************************)
(* Reading the state of main() for the properties.                         *)
(***************************************************************************)
\* row k + 1 of the sheet was queried against SerpAPI, has an update queued
RowQueried(log, k) == \E j \in 1..Len(log) : log[j] = <<"query", k + 1>>

RowQueued(queue, k) == \E j \in 1..Len(queue) : queue[j].row_index = k + 1

\* the data rows whose Uses_Drones cell is not the empty string, and those
\* whose cell holds more than whitespace
NonEmptyRows == {k \in 1..Len(sheet) : sheet[k].Uses_Drones # ""}

NonBlankRows == {k \in 1..Len(sheet) : Strip(sheet[k].Uses_Drones) # ""}

\* the loop is at row k + 1 of the sheet
AtRow(k) ==
    /\ main_pc = "loop"
    /\ main_i <= Len(rows)
    /\ rows[main_i].row_index = k + 1

\* a step of main() leaves the rows K alone: none is queried, none has an
\* update queued, their cells stay as they are, and passing one of them
\* does not count as a new row
LeftAlone(K) ==
    \A k \in K :
        /\ ~RowQueried(calls', k)
        /\ ~RowQueued(updates', k)
        /\ sheet'[k] = sheet[k]
        /\ AtRow(k) => new_rows_processed' = new_rows_processed

QueryCount == Cardinality({j \in 1..Len(calls) : calls[j][1] = "query"})

(***************************************************************************)
(* C23  When MAX_NEW_ROWS > 0, a run queries SerpAPI for at most           *)
(* MAX_NEW_ROWS rows, whether the queries succeed or fail.                 *)
(***************************************************************************)
C23_AtMostMaxNewRowsQueried == (MAX_NEW_ROWS > 0) => QueryCount <= MAX_NEW_ROWS

\* the counters of main() agree with each other and with the queue
CountersAgree ==
    /\ processed_count = updated_count + error_count
    /\ updated_count = Len(updates)
    /\ skipped_count + processed_count <= Len(rows)

\* the rows of the sheet whose query failed: queried, nothing queued
FailedRows(log, queue) ==
    {k \in 1..Len(sheet) : RowQueried(log, k) /\ ~RowQueued(queue, k)}

(***************************************************************************)
(* C24  A failed SerpAPI query queues no update for its row, the row's     *)
(* cells are not written and the loop goes on with the next row; all along *)
(* processed_count = updated_count + error_count, updated_count is the     *)
(* number of queued updates and skipped_count + processed_count is at most *)
(* the number of rows.                                                     *)
(***************************************************************************)
C24_FailedQueryQueuesNothing ==
    [][ /\ CountersAgree /\ CountersAgree'
        /\ error_count' # error_count =>
              /\ updates' = updates
              /\ error_count' = error_count + 1
              /\ main_pc' = "sleep"
        /\ main_pc = "sleep" => main_pc' = "loop" /\ main_i' = main_i + 1
        /\ \A k \in FailedRows(calls', updates') : sheet'[k] = sheet[k]
        /\ Cardinality(FailedRows(calls', updates')) = error_count' ]_vars

\* a run in which one query failed and another was answered, after the write
W_C24 ==
    /\ main_pc = "done"
    /\ error_count = 1
    /\ updated_count = 1
    /\ \E k \in FailedRows(calls, updates) : sheet[k].Uses_Drones = ""

(***************************************************************************)
(* C25  In one run of main(), a SerpAPI query that is followed by another  *)
(* call is followed by time.sleep(SERPAPI_DELAY), after a success and      *)
(* after an error alike: no two queries are issued back to back.           *)
(***************************************************************************)
C25_DelayBetweenQueries ==
    \A j \in 1..(Len(calls) - 1) :
        calls[j][1] = "query" => calls[j + 1] = <<"sleep">>

\* two queries with the delay between them, one answered and one failed
W_C25 ==
    /\ Len(calls) = 3
    /\ calls[1][1] = "query"
    /\ calls[2] = <<"sleep">>
    /\ calls[3][1] = "query"
    /\ updated_count = 1
    /\ error_count = 1

(***************************************************************************)
(* Reading the state of run() on the worksheet for the properties.         *)
(***************************************************************************)
\* what col_values returns for the 'Using Pano AI' column, and the rows from
\* 2 on among the returned ones whose value is empty or whitespace only
PanoValues == col_values(worksheet, "pano", "Using Pano AI")

ReturnedBlankRows == {r \in 2..Len(PanoValues) : Strip(PanoValues[r]) = ""}

(***************************************************************************)
(* C26  find_start_row returns the smallest row number >= 2 whose cell in  *)
(* the column is empty or whitespace-only; if every data row returned for  *)
(* the column has a value it returns one past the last returned row (2     *)
(* when only the header exists); if the column cannot be read it returns 2.*)
(***************************************************************************)
C26_FindStartRow ==
    /\ sheet_pc = "started" =>
          /\ start_row >= 2
          /\ IF ReturnedBlankRows # {}
             THEN /\ start_row \in ReturnedBlankRows
                  /\ \A r \in ReturnedBlankRows : start_row <= r
             ELSE start_row = Len(PanoValues) + 1
    /\ sheet_pc = "started_unread" => start_row = 2

\* a column with a value in row 2 and whitespace in row 3
W_C26 ==
    /\ sheet_pc = "started"
    /\ Len(worksheet) = 2
    /\ worksheet[1].pano = "True"
    /\ worksheet[2].pano = " "
    /\ start_row = 3

\* the rows that held a value in the 'Using Pano AI' column when the
\* current run started
DoneBefore == {k \in 1..Len(pano_before) : Strip(pano_before[k]) # ""}

(***************************************************************************)
(* C27  Across any sequence of run() calls on the same sheet, a run never  *)
(* re-checks a utility and never overwrites a row whose 'Using Pano AI'    *)
(* cell was already non-empty when that run started.                       *)
(***************************************************************************)
C27_ResumptionNeverRedoes ==
    /\ \A j \in 1..Len(utilities) : utilities[j][1] - 1 \notin DoneBefore
    /\ \A k \in DoneBefore : worksheet[k].pano = pano_before[k]

\* the row numbers of the first n tuples of results, in order
RowsOf(rs, n) == [k \in 1..n |-> rs[k][1]]

(***************************************************************************)
(* C28  If the batch update raises, every row of results is attempted      *)
(* individually, in order; a failure while writing one row does not        *)
(* prevent the attempt on a later row, and update_sheet raises no error to *)
(* its caller.                                                             *)
(***************************************************************************)
C28_FallbackAttemptsEveryRow ==
    /\ sheet_pc # "raised"
    /\ sheet_pc = "fallback" => attempted = RowsOf(results, write_i - 1)
    /\ (sheet_pc = "returned" /\ batch = "failed") =>
          attempted = RowsOf(results, Len(results))

\* a fallback over two rows in which the first row failed and the second
\* was written
W_C28 ==
    /\ sheet_pc = "returned"
    /\ batch = "failed"
    /\ Len(results) = 2
    /\ attempted = <<results[1][1], results[2][1]>>
    /\ worksheet[results[1][1] - 1].pano = ""
    /\ pano_before[results[2][1] - 1] = ""
    /\ worksheet[results[2][1] - 1].pano = pano_text(results[2][2])

\* a "; "-joined URL string with an empty URL in it
HasEmptyUrl(joined) ==
    \/ joined = ""
    \/ SubSeq(joined, 1, 2) = "; "
    \/ (Len(joined) >= 2 /\ SubSeq(joined, Len(joined) - 1, Len(joined)) = "; ")
    \/ Contains(joined, "; ; ")

(***************************************************************************)
(* C29  Every URL reported as evidence is a non-empty string: a decision   *)
(* of true comes with at least one URL and none of the URLs returned is    *)
(* empty, also when a qualifying record has no link or an empty one.       *)
(***************************************************************************)
C29_EvidenceUrlsNonEmpty ==
    /\ (DroneDone /\ drone_result.found) =>
          /\ drone_result.urls # None
          /\ ~HasEmptyUrl(drone_result.urls[1])
    /\ (PanoDone /\ pano_result.found) =>
          /\ Len(pano_result.urls) > 0
          /\ \A k \in 1..Len(pano_result.urls) : pano_result.urls[k] # ""

\* one-word names that the abbreviation and punctuation rewrites apply to,
\* with the variations generated for them
OneWordNames == {"Lane", "Co-op", "Cooperative", "Assn.", "Inc.", " Lane,Inc "}

OneWordVariations ==
    [n \in OneWordNames |-> SeqSet(get_utility_name_variations(n))]

(***************************************************************************)
(* C30  A one-word organization name never yields evidence in the drone    *)
(* flow: every generated variation has fewer than 2 words, no result       *)
(* establishes name-presence in either tier, and utility_uses_drones       *)
(* returns (False, None) for every result sequence.                        *)
(***************************************************************************)
C30_OneWordNameNeverEvidence ==
    (DroneDone /\ WordCount(Strip(utility_name)) = 1) =>
        /\ \A v \in SeqSet(DroneVariations[utility_name]) : WordCount(v) < 2
        /\ \A n \in OneWordNames : \A v \in OneWordVariations[n] : WordCount(v) < 2
        /\ \A i \in 1..Len(InputResults) :
              ~name_presence(utility_name, DroneVariations[utility_name],
                             TextOf(InputResults[i])).has_utility_name
        /\ drone_result = Return(FALSE, None)

\* a one-word name, classified against an admissible result that holds the
\* name, a drone keyword and a context keyword
W_C30 ==
    /\ DroneDone
    /\ WordCount(Strip(utility_name)) = 1
    /\ \E i \in 1..Len(InputResults) :
          /\ ~LinkRejected(InputResults[i])
          /\ LinkOf(InputResults[i]) # ""
          /\ Contains(TextOf(InputResults[i]), Lower(utility_name))
          /\ SubjectAndContext(InputResults[i])
    /\ drone_result = Return(FALSE, None)

====
